---- MODULE Spec2Model ----
(***************************************************************************)
(* Model of the timeday client: the App component (navigation / session   *)
(* state machine), the Login component, the networked ApiService gateway, *)
(* CookieUtils and HistoryUtils.                                          *)
(*                                                                         *)
(* Spec        : the application as a whole (startup resume, login,       *)
(*               logout, subject / topic / file navigation, tabs).        *)
(* SpecHistory : HistoryUtils alone, driven by arbitrary add / clear      *)
(*               calls, with the list long enough to reach the cap.       *)
(***************************************************************************)
EXTENDS Integers, Sequences, FiniteSets, TLC

\* ------------------------------------------------------------------ bounds
\* Spec: file views allowed (visitCount and lastVisited are unbounded)
MaxViews == 1
\* paper cards modelled per topic (the page renders six)
MaxPaper == 1
\* SpecHistory: addToHistory calls made on top of the initial list
MaxAdds == 4
\* SpecHistory: the initial lists are the empty one and those at most this
\* far below the cap
PrefillSlack == 2
\* SpecMock: calls of the mock login (its tokens carry the time of the call)
MaxMockCalls == 3
\* SpecLogin: signups under way at once (calls in flight and pending timeouts)
MaxSignups == 1

\* seconds between a successful signup and the move to the login page
SignupDelay == 2

\* ------------------------------------------------------- program constants
HistoryLimit == 50
SessionCookieDays == 7
AuthCookieDays == 1

\* ------------------------------------------------------------------ values
\* JS null for the string-valued state (selectedSubject, viewingFile, ...)
Null == "null"
\* JS null for the user object
NoUser == [nil |-> TRUE]

Pages == {"welcome", "login", "signup", "main"}
Tabs == {"search", "textbook", "syllabus", "notebook", "history"}

\* the two accounts of the login page's footer, as the backend returns them
UserData ==
  { [username |-> "TZY", userType |-> "user", email |-> "test@example.com", token |-> "tok1"],
    [username |-> "tzy", userType |-> "guest", email |-> "tzy@example.com", token |-> "tok2"] }

subjectsData ==
  [ mathematics |-> {"9709"},
    physics     |-> {"9702"} ]

SubjectKeys == DOMAIN subjectsData

\* title of the i-th paper card of a topic
FileTitle(topicId, i) == topicId \o " Paper " \o ToString((i % 3) + 1)

\* ------------------------------------------------------------- JSON / cookies
JSONstringify(u) ==
  "{" \o u.username \o "," \o u.userType \o "," \o u.email \o "," \o u.token \o "}"

JSONparses(s) == \E u \in UserData : JSONstringify(u) = s

\* defined only where JSONparses(s); JSON.parse throws elsewhere
JSONparse(s) == CHOOSE u \in UserData : JSONstringify(u) = s

CookieNames == {"userToken", "userData", "authToken"}

NoCookie == [present |-> FALSE, value |-> "", days |-> 0]

setCookie(jar, name, value, days) ==
  [jar EXCEPT ![name] = [present |-> TRUE, value |-> value, days |-> days]]

\* null for a missing cookie
getCookie(jar, name) == IF jar[name].present THEN jar[name].value ELSE Null

\* faulty variant: blanks the value and leaves the cookie in the jar
deleteCookieBlank(jar, name) ==
  [jar EXCEPT ![name] = [present |-> TRUE, value |-> "", days |-> 0]]

deleteCookie(jar, name) == [jar EXCEPT ![name] = NoCookie]

\* JS truthiness of a string-or-null
Truthy(s) == s # Null /\ s # ""

\* ------------------------------------------------------------- HistoryUtils
NoHistoryKey == [present |-> FALSE, list |-> <<>>]

getHistory(stored) == IF stored.present THEN stored.list ELSE <<>>

\* faulty variant: entries are matched on their id alone
findIndexById(h, item) ==
  IF \E i \in 1..Len(h) : h[i].id = item.id
    THEN CHOOSE i \in 1..Len(h) :
           /\ h[i].id = item.id
           /\ \A j \in 1..(i - 1) : h[j].id # item.id
    ELSE 0

\* 1-based index of the first entry with the item's id and type; 0 for JS's -1
findIndex(h, item) ==
  IF \E i \in 1..Len(h) : h[i].id = item.id /\ h[i].type = item.type
    THEN CHOOSE i \in 1..Len(h) :
           /\ h[i].id = item.id /\ h[i].type = item.type
           /\ \A j \in 1..(i - 1) : ~(h[j].id = item.id /\ h[j].type = item.type)
    ELSE 0

\* faulty variant: the last n entries are kept
sliceTail(h, n) == SubSeq(h, (IF Len(h) < n THEN 1 ELSE Len(h) - n + 1), Len(h))

slice(h, n) == SubSeq(h, 1, IF Len(h) < n THEN Len(h) ELSE n)

\* faulty variant: the entry visited again moves to the front
revisitToFront(history, k, now) ==
  <<[history[k] EXCEPT !.visitCount = @ + 1, !.lastVisited = now]>>
    \o SubSeq(history, 1, k - 1) \o SubSeq(history, k + 1, Len(history))

\* the update of the entry found at index k
revisit(history, k, now) ==
  [history EXCEPT ![k] = [@ EXCEPT !.visitCount = @ + 1, !.lastVisited = now]]

\* faulty variant: the list is stored without being cut to the limit
addToHistoryUncapped(stored, item, now) ==
  LET history == getHistory(stored)
      existingIndex == findIndex(history, item)
  IN [present |-> TRUE,
      list |-> IF existingIndex # 0
                 THEN [history EXCEPT ![existingIndex] =
                         [@ EXCEPT !.visitCount = @ + 1, !.lastVisited = now]]
                 ELSE <<[id |-> item.id, type |-> item.type, name |-> item.name,
                         visitCount |-> 1, lastVisited |-> now]>> \o history]

addToHistory(stored, item, now) ==
  LET history == getHistory(stored)
      existingIndex == findIndex(history, item)
      updated ==
        IF existingIndex # 0
          THEN revisit(history, existingIndex, now)
          ELSE <<[id |-> item.id, type |-> item.type, name |-> item.name,
                  visitCount |-> 1, lastVisited |-> now]>> \o history
  IN [present |-> TRUE, list |-> slice(updated, HistoryLimit)]

\* faulty variant: the key is left as it is
clearHistoryKeeps(stored) == stored

clearHistory(stored) == NoHistoryKey

\* ------------------------------------------------------------------- state
VARIABLES
  mounted,          \* the mount effect has run
  currentPage, user,
  selectedSubject, selectedTopic, viewingFile, showFilePreview,
  activeTab, showUserProfile,
  fileStartTime,    \* Date.now() of the last file view; 0 for null
  userAvatar,       \* the avatar shown
  browsingHistory,  \* App's in-memory copy of the history
  message, loading, \* Login component state
  cookies,          \* document.cookie
  authTokenLS,      \* localStorage 'authToken'
  avatarLS,         \* localStorage 'userAvatar'
  storedHistory,    \* localStorage 'browsingHistory'
  valCall,          \* validateSession call in flight (startup)
  loginCall,        \* login call in flight, issued by the mounted Login
  staleLogin,       \* login call in flight, issued by an unmounted Login
  navPending,       \* window.location.href was assigned
  clock,            \* wall clock, advanced by the history adds
  histAdds,         \* addToHistory calls made so far
  addsSinceEmpty, keysSinceEmpty, \* adds and their (id,type) since the list was empty
  theme, themeLS,   \* the theme shown and localStorage 'theme'
  bodyClass,        \* document.body.className
  formData,         \* Login component state: the fields of both forms
  registerCall,     \* register call in flight, issued by the mounted Login
  staleRegister,    \* register call in flight, issued by an unmounted Login
  signupTimers,     \* the pending timeouts of successful signups
  apiCall, apiResult, \* the last direct call of a gateway method and what it returned
  durationTimers,   \* running intervals of the viewing-duration effect
  currentDuration,  \* 0 for null, 1 for a duration shown
  dateNow,          \* Date.now() of the usage record, in units of 30 seconds
  sessionStartTime,
  usageClosureStart, \* the sessionStartTime the usage effect in force was run with
  usageDue,         \* when the interval of the usage effect fires next
  dailyUsageData,   \* today's entry of the state
  dailyUsageLS,     \* today's entry of localStorage 'dailyUsageData'
  showSubjectModal,
  selectedSubjects, \* the ids of the chosen subjects, in the order of the list
  selectedSubjectsLS, \* localStorage 'selectedSubjects'
  userProfileLS,    \* localStorage 'userProfile'
  toggles,          \* calls of toggleSubjectSelection so far
  ev                \* the last handler that ran

vars ==
  << mounted, currentPage, user, selectedSubject, selectedTopic, viewingFile,
     showFilePreview, activeTab, showUserProfile, browsingHistory, message,
     loading, cookies, authTokenLS, storedHistory, valCall, loginCall,
     staleLogin, navPending, clock, histAdds, addsSinceEmpty,
     keysSinceEmpty, fileStartTime, userAvatar, avatarLS, theme, themeLS,
     bodyClass, formData, registerCall, staleRegister, signupTimers, apiCall,
     apiResult, durationTimers, currentDuration, dateNow, sessionStartTime,
     usageClosureStart, usageDue, dailyUsageData, dailyUsageLS, showSubjectModal,
     selectedSubjects, selectedSubjectsLS, userProfileLS, toggles, ev >>

navVars == << selectedSubject, selectedTopic, viewingFile, showFilePreview >>
histVars == << browsingHistory, storedHistory, clock, histAdds, addsSinceEmpty, keysSinceEmpty >>
storeVars == << cookies, authTokenLS >>
callVars == << valCall, loginCall, staleLogin, navPending >>
avatarVars == << userAvatar, avatarLS >>
themeVars == << theme, themeLS, bodyClass >>
signupVars == << formData, registerCall, staleRegister, signupTimers >>
apiVars == << apiCall, apiResult >>
durationVars == << durationTimers, currentDuration >>
subjectVars == << showSubjectModal, selectedSubjects, selectedSubjectsLS, userProfileLS,
                 toggles >>
usageVars == << dateNow, sessionStartTime, usageClosureStart, usageDue, dailyUsageData,
               dailyUsageLS >>
loginVars == << message, loading >>

NoCall == [pending |-> FALSE, userToken |-> "", userData |-> ""]

\* ------------------------------------------------------------- ApiService
\* what the remote call can do: a success envelope, a failure envelope, a
\* transport failure (or a non-2xx answer other than 401), a 401
LoginOutcomes == {"ok", "fail", "neterr", "http401"}
\* validateSession can also get a 2xx answer whose body is JSON null
ValidateOutcomes == {"ok", "fail", "nullbody", "neterr", "http401"}

\* the stores the gateway touches
Stores == [cookies |-> cookies, authTokenLS |-> authTokenLS, navPending |-> navPending]

\* apiClient response interceptor: a 401 drops the authToken and redirects
responseInterceptor(s, outcome) ==
  IF outcome = "http401"
    THEN [s EXCEPT !.authTokenLS = Null,
                   !.cookies = deleteCookie(@, "authToken"),
                   !.navPending = TRUE]
    ELSE s

\* ApiService.login: the envelope it returns
loginEnvelope(outcome, u) ==
  CASE outcome = "ok"   -> [success |-> TRUE, data |-> u, message |-> ""]
    [] outcome = "fail" -> [success |-> FALSE, data |-> NoUser, message |-> "server"]
    [] OTHER            -> [success |-> FALSE, data |-> NoUser, message |-> "network"]

\* faulty variant: the token is saved whatever the answer says
loginStoresAlwaysSaves(s, outcome, u) ==
  IF outcome \in {"ok", "fail"}
    THEN [s EXCEPT !.authTokenLS = u.token,
                   !.cookies = setCookie(@, "authToken", u.token, AuthCookieDays)]
    ELSE responseInterceptor(s, outcome)

\* ApiService.login: what it does to the stores
loginStores(s, outcome, u) ==
  IF outcome = "ok"
    THEN [s EXCEPT !.authTokenLS = u.token,
                   !.cookies = setCookie(@, "authToken", u.token, AuthCookieDays)]
    ELSE responseInterceptor(s, outcome)

\* ApiService.validateSession: response.data, or the failure envelope
validateSession(outcome) ==
  CASE outcome = "ok"       -> [isNull |-> FALSE, success |-> TRUE]
    [] outcome = "nullbody" -> [isNull |-> TRUE, success |-> FALSE]
    [] OTHER                -> [isNull |-> FALSE, success |-> FALSE]

\* register can get the answers login can
RegisterOutcomes == LoginOutcomes
\* logout can get the answers validateSession can
LogoutOutcomes == ValidateOutcomes

\* ApiService.register: the envelope it returns
registerEnvelope(outcome, u) ==
  CASE outcome = "ok"   -> [success |-> TRUE, data |-> u, message |-> "registered"]
    [] outcome = "fail" -> [success |-> FALSE, data |-> NoUser, message |-> "server"]
    [] OTHER            -> [success |-> FALSE, data |-> NoUser, message |-> "network"]

\* faulty variant: registration writes the session's token cookie as a login does
registerStoresWithSession(s, outcome, u) ==
  IF outcome = "ok"
    THEN [s EXCEPT !.authTokenLS = u.token,
                   !.cookies = setCookie(setCookie(@, "authToken", u.token, AuthCookieDays),
                                         "userToken", u.token, SessionCookieDays)]
    ELSE responseInterceptor(s, outcome)

\* ApiService.register: what it does to the stores (registering logs in)
registerStores(s, outcome, u) ==
  IF outcome = "ok"
    THEN [s EXCEPT !.authTokenLS = u.token,
                   !.cookies = setCookie(@, "authToken", u.token, AuthCookieDays)]
    ELSE responseInterceptor(s, outcome)

\* ApiService.logout: response.data, or the failure envelope
logoutEnvelope(outcome) ==
  CASE outcome = "ok"       -> [isNull |-> FALSE, success |-> TRUE]
    [] outcome = "nullbody" -> [isNull |-> TRUE, success |-> FALSE]
    [] OTHER                -> [isNull |-> FALSE, success |-> FALSE]

\* faulty variant: the token is cleared in the try branch only
logoutStoresOnAnswer(s, outcome) ==
  LET t == responseInterceptor(s, outcome)
  IN IF outcome \in {"ok", "fail", "nullbody"}
       THEN [t EXCEPT !.authTokenLS = Null, !.cookies = deleteCookie(@, "authToken")]
       ELSE t

\* ApiService.logout: what it does to the stores, in its try and in its catch
logoutStores(s, outcome) ==
  LET t == responseInterceptor(s, outcome)
  IN [t EXCEPT !.authTokenLS = Null, !.cookies = deleteCookie(@, "authToken")]

\* ------------------------------------------------------------ Init
LoginFields == {"loginUsername", "loginPassword"}
SignupFields == {"signupUsername", "signupEmail", "signupPassword", "signupConfirmPassword"}

\* the initial formData of a Login instance
EmptyForm == [f \in LoginFields \cup SignupFields |-> ""]

NoApiCall == [name |-> "none"]

\* localStorage without the selectedSubjects key
NoSubjectsKey == [present |-> FALSE, value |-> << >>]

\* the subjects selectedSubjects starts with
DefaultSubjects == << 1, 2, 3 >>

InMemoryInit ==
  /\ mounted = FALSE
  /\ currentPage = "welcome"
  /\ user = NoUser
  /\ selectedSubject = Null /\ selectedTopic = Null
  /\ viewingFile = Null /\ showFilePreview = FALSE
  /\ activeTab = "search" /\ showUserProfile = FALSE
  /\ fileStartTime = 0
  /\ userAvatar = Null
  /\ browsingHistory = <<>>
  /\ message = "" /\ loading = FALSE
  /\ valCall = NoCall /\ loginCall = FALSE /\ staleLogin = FALSE
  /\ navPending = FALSE
  /\ theme = "light" /\ bodyClass = ""
  /\ formData = EmptyForm
  /\ registerCall = FALSE /\ staleRegister = FALSE
  /\ signupTimers = <<>>
  /\ apiCall = NoApiCall /\ apiResult = NoApiCall
  /\ durationTimers = 0 /\ currentDuration = 0
  /\ dateNow = 0 /\ sessionStartTime = 0 /\ usageClosureStart = 0 /\ usageDue = 0
  /\ dailyUsageData = 0 /\ dailyUsageLS = 0
  /\ showSubjectModal = FALSE /\ selectedSubjects = DefaultSubjects
  /\ toggles = 0

EmptyJar == [n \in CookieNames |-> NoCookie]

\* a session left by an earlier visit of u, whose userData cookie holds text
LeftSession(u, text) ==
  setCookie(setCookie(EmptyJar, "userToken", u.token, SessionCookieDays),
            "userData", text, SessionCookieDays)

\* what an earlier visit can have left in the browser
InitStores ==
  { [cookies |-> EmptyJar, authTokenLS |-> Null] }
  \cup { [cookies |-> LeftSession(u, JSONstringify(u)), authTokenLS |-> u.token] :
           u \in {x \in UserData : x.userType = "guest"} }
  \cup { [cookies |-> LeftSession(u, "{" \o u.username), authTokenLS |-> u.token] :
           u \in {x \in UserData : x.userType = "guest"} }

Init ==
  /\ InMemoryInit
  /\ \E s \in InitStores : cookies = s.cookies /\ authTokenLS = s.authTokenLS
  /\ avatarLS = Null /\ themeLS = Null
  /\ selectedSubjectsLS = NoSubjectsKey /\ userProfileLS = Null
  /\ storedHistory = NoHistoryKey
  /\ clock = 0
  /\ histAdds = 0
  /\ addsSinceEmpty = 0 /\ keysSinceEmpty = {}
  /\ ev = "init"

\* ------------------------------------------------------------ theme
\* document.body.className for a theme
bodyClassName(t) == IF t = "dark" THEN "dark-theme" ELSE ""

\* faulty variant: the stored theme is not read
initializeThemeLight(saved) == "light"

\* initializeTheme: the theme it sets
initializeTheme(saved) == IF Truthy(saved) THEN saved ELSE "light"

\* toggleTheme: the theme it sets
newTheme(t) == IF t = "light" THEN "dark" ELSE "light"

\* ------------------------------------------------------------ daily usage
\* the interval of the usage effect, 60000 ms, in units of 30 seconds
UsagePeriod == 2

\* handleBeforeUnload: today's entry of localStorage after the flush
handleBeforeUnload(stored, currentTime, start) == stored + (currentTime - start)

\* updateDailyUsage: today's entry, computed from the entry of the state
updateDailyUsage(prevData) == prevData + UsagePeriod

\* ------------------------------------------------------------ viewing duration
\* faulty variant: the cleanup clears nothing
intervalsLeaked(had) == 0

\* the cleanup of the duration effect clears the interval its run set, if it set one
intervalsCleared(had) == IF had THEN 1 ELSE 0

\* the duration effect, run again after a handler changed fileStartTime or
\* showFilePreview: cleanup of the last run, then the new run
durationEffect ==
  LET had == fileStartTime # 0 /\ showFilePreview
      has == fileStartTime' # 0 /\ showFilePreview'
      rerun == fileStartTime' # fileStartTime \/ showFilePreview' # showFilePreview
  IN /\ durationTimers' = IF rerun
                             THEN (durationTimers - intervalsCleared(had))
                                  + (IF has THEN 1 ELSE 0)
                             ELSE durationTimers
     /\ currentDuration' = IF rerun /\ ~has THEN 0 ELSE currentDuration

\* ------------------------------------------------------------ startup
\* the mount effects: checkCookieAndSession up to its await, then
\* loadBrowsingHistory, initializeTheme, then the stored avatar is loaded
checkCookieAndSession ==
  /\ ~mounted
  /\ mounted' = TRUE
  /\ LET userToken == getCookie(cookies, "userToken")
         userData == getCookie(cookies, "userData")
     IN IF Truthy(userToken) /\ Truthy(userData)
          THEN /\ valCall' = [pending |-> TRUE, userToken |-> userToken, userData |-> userData]
               /\ currentPage' = currentPage
          ELSE /\ valCall' = valCall
               /\ currentPage' = "welcome"
  /\ browsingHistory' = getHistory(storedHistory)
  /\ userAvatar' = IF Truthy(avatarLS) THEN avatarLS ELSE userAvatar
  /\ theme' = initializeTheme(themeLS)
  /\ bodyClass' = bodyClassName(theme')
  /\ usageDue' = dateNow + UsagePeriod
  /\ ev' = "mount"
  /\ UNCHANGED << themeLS, signupVars, apiVars, durationVars, dateNow, sessionStartTime,
                  usageClosureStart, dailyUsageData, dailyUsageLS, subjectVars >>
  /\ UNCHANGED << user, navVars, activeTab, showUserProfile, loginVars, storeVars,
                  storedHistory, clock, histAdds, addsSinceEmpty, keysSinceEmpty,
                  loginCall, staleLogin, navPending, fileStartTime, avatarLS >>

\* what leaving the login pages for main does to the Login component: it is
\* unmounted, so its next instance starts with an empty message and no loading
\* flag, and a call it had in flight resolves against an unmounted instance
EnterMain ==
  /\ message' = ""
  /\ loading' = FALSE
  /\ formData' = EmptyForm
  /\ loginCall' = FALSE
  /\ registerCall' = FALSE
  /\ staleRegister' = (staleRegister \/ registerCall)
  /\ signupTimers' = [i \in 1..Len(signupTimers) |-> [signupTimers[i] EXCEPT !.live = FALSE]]

\* faulty variant: the page is set to main without the user
checkCookieAndSessionResumeNoUser(outcome) ==
  /\ valCall.pending
  /\ LET s == responseInterceptor(Stores, outcome)
         response == validateSession(outcome)
         raised == response.isNull \/ (response.success /\ ~JSONparses(valCall.userData))
     IN /\ authTokenLS' = s.authTokenLS
        /\ navPending' = s.navPending
        /\ IF ~raised /\ response.success
             THEN /\ user' = user
                  /\ currentPage' = "main"
                  /\ cookies' = s.cookies
                  /\ EnterMain
                  /\ staleLogin' = (staleLogin \/ loginCall)
             ELSE /\ user' = user
                  /\ currentPage' = "welcome"
                  /\ cookies' = IF raised THEN s.cookies
                                ELSE deleteCookie(deleteCookie(s.cookies, "userToken"), "userData")
                  /\ UNCHANGED << loginVars, loginCall, staleLogin, signupVars >>
  /\ valCall' = NoCall
  /\ ev' = IF outcome = "ok" /\ JSONparses(valCall.userData) THEN "resumed"
           ELSE IF outcome \in {"fail", "neterr", "http401"} THEN "resumeRejected"
           ELSE "resumeRaised"
  /\ UNCHANGED << mounted, navVars, activeTab, showUserProfile, histVars,
                  fileStartTime, avatarVars, themeVars, apiVars,
                  usageVars, subjectVars, durationVars >>

\* checkCookieAndSession after its await
checkCookieAndSessionResume(outcome) ==
  /\ valCall.pending
  /\ LET s == responseInterceptor(Stores, outcome)
         response == validateSession(outcome)
         raised == response.isNull \/ (response.success /\ ~JSONparses(valCall.userData))
     IN /\ authTokenLS' = s.authTokenLS
        /\ navPending' = s.navPending
        /\ IF ~raised /\ response.success
             THEN /\ user' = JSONparse(valCall.userData)
                  /\ currentPage' = "main"
                  /\ cookies' = s.cookies
                  /\ EnterMain
                  /\ staleLogin' = (staleLogin \/ loginCall)
             ELSE /\ user' = user
                  /\ currentPage' = "welcome"
                  /\ cookies' = IF raised THEN s.cookies
                                ELSE deleteCookie(deleteCookie(s.cookies, "userToken"), "userData")
                  /\ UNCHANGED << loginVars, loginCall, staleLogin, signupVars >>
  /\ valCall' = NoCall
  /\ ev' = IF outcome = "ok" /\ JSONparses(valCall.userData) THEN "resumed"
           ELSE IF outcome \in {"fail", "neterr", "http401"} THEN "resumeRejected"
           ELSE "resumeRaised"
  /\ UNCHANGED << mounted, navVars, activeTab, showUserProfile, histVars,
                  fileStartTime, avatarVars, themeVars, apiVars,
                  usageVars, subjectVars, durationVars >>

\* ------------------------------------------------------------ Login component
LoginMounted == mounted /\ currentPage \in {"welcome", "login", "signup"}

showLogin ==
  /\ LoginMounted /\ currentPage = "welcome"
  /\ currentPage' = "login"
  /\ message' = ""
  /\ ev' = "showLogin"
  /\ UNCHANGED << mounted, user, navVars, activeTab, showUserProfile, histVars,
                  loading, storeVars, callVars, fileStartTime, avatarVars, themeVars,
                  signupVars, apiVars,
                  usageVars, subjectVars, durationVars >>

\* faulty variant: leaving the login form gives up the call under way
showSignUpCancels ==
  /\ LoginMounted /\ currentPage \in {"welcome", "login"}
  /\ currentPage' = "signup"
  /\ message' = ""
  /\ loginCall' = FALSE
  /\ loading' = FALSE
  /\ ev' = "showSignUp"
  /\ UNCHANGED << mounted, user, navVars, activeTab, showUserProfile, histVars,
                  storeVars, valCall, staleLogin, navPending, fileStartTime,
                  avatarVars, themeVars, signupVars, apiVars, usageVars, subjectVars,
                  durationVars >>

\* from the welcome page, and from the login form's register link (never disabled)
showSignUp ==
  /\ LoginMounted /\ currentPage \in {"welcome", "login"}
  /\ currentPage' = "signup"
  /\ message' = ""
  /\ ev' = "showSignUp"
  /\ UNCHANGED << mounted, user, navVars, activeTab, showUserProfile, histVars,
                  loading, storeVars, callVars, fileStartTime, avatarVars, themeVars,
                  signupVars, apiVars,
                  usageVars, subjectVars, durationVars >>

\* the back button of both forms, disabled while loading
showWelcome ==
  /\ LoginMounted /\ currentPage \in {"login", "signup"} /\ ~loading
  /\ currentPage' = "welcome"
  /\ message' = ""
  /\ ev' = "showWelcome"
  /\ UNCHANGED << mounted, user, navVars, activeTab, showUserProfile, histVars,
                  loading, storeVars, callVars, fileStartTime, avatarVars, themeVars,
                  signupVars, apiVars,
                  usageVars, subjectVars, durationVars >>

\* handleLoginSubmit up to its await (the submit button is disabled while loading)
handleLoginSubmit ==
  /\ LoginMounted /\ currentPage = "login" /\ ~loading
  /\ loading' = TRUE
  /\ message' = ""
  /\ loginCall' = TRUE
  /\ ev' = "loginSubmit"
  /\ UNCHANGED << mounted, currentPage, user, navVars, activeTab, showUserProfile,
                  histVars, storeVars, valCall, staleLogin, navPending,
                  fileStartTime, avatarVars, themeVars, signupVars, apiVars,
                  usageVars, subjectVars, durationVars >>

\* faulty variant: the serialized user is not written
sessionCookiesTokenOnly(jar, userData) ==
  setCookie(jar, "userToken", userData.token, SessionCookieDays)

\* the cookies handleLoginSubmit writes on success
sessionCookies(jar, userData) ==
  setCookie(setCookie(jar, "userToken", userData.token, SessionCookieDays),
            "userData", JSONstringify(userData), SessionCookieDays)

\* handleLoginSubmit after its await; live says whether the Login instance that
\* submitted is still the mounted one
loginResume(live, outcome, u) ==
  LET s == loginStores(Stores, outcome, u)
      response == loginEnvelope(outcome, u)
  IN /\ authTokenLS' = s.authTokenLS
     /\ navPending' = s.navPending
     /\ IF response.success
          THEN /\ cookies' = sessionCookies(s.cookies, response.data)
               /\ user' = response.data
               /\ currentPage' = "main"
               /\ EnterMain
               /\ staleLogin' = IF live THEN staleLogin ELSE loginCall
          ELSE /\ cookies' = s.cookies
               /\ user' = user
               /\ currentPage' = currentPage
               /\ message' = IF live THEN response.message ELSE message
               /\ loading' = IF live THEN FALSE ELSE loading
               /\ loginCall' = IF live THEN FALSE ELSE loginCall
               /\ staleLogin' = IF live THEN staleLogin ELSE FALSE
               /\ UNCHANGED signupVars
     /\ ev' = (IF live THEN "login" ELSE "lateLogin")
                \o (IF response.success THEN "Ok"
                    ELSE IF outcome = "fail" THEN "Rejected" ELSE "Error")
     /\ UNCHANGED << mounted, navVars, activeTab, showUserProfile, histVars, valCall,
                     fileStartTime, avatarVars, themeVars, apiVars,
                  usageVars, subjectVars, durationVars >>

handleLoginSubmitResume(outcome, u) ==
  /\ loginCall
  /\ loginResume(TRUE, outcome, u)

staleLoginSubmitResume(outcome, u) ==
  /\ staleLogin
  /\ loginResume(FALSE, outcome, u)

\* ------------------------------------------------------------ logout
\* the part of the state handleLogout works on
AppState ==
  [ cookies |-> cookies, user |-> user, currentPage |-> currentPage,
    selectedSubject |-> selectedSubject, selectedTopic |-> selectedTopic,
    activeTab |-> activeTab, viewingFile |-> viewingFile,
    showFilePreview |-> showFilePreview, showUserProfile |-> showUserProfile,
    userAvatar |-> userAvatar, avatarLS |-> avatarLS ]

\* faulty variant: the active tab survives the logout
handleLogoutKeepsTab(s) ==
  [ cookies |-> deleteCookie(deleteCookie(s.cookies, "userToken"), "userData"),
    user |-> NoUser,
    currentPage |-> "welcome",
    selectedSubject |-> Null,
    selectedTopic |-> Null,
    activeTab |-> s.activeTab,
    viewingFile |-> Null,
    showFilePreview |-> FALSE,
    showUserProfile |-> FALSE,
    userAvatar |-> Null,
    avatarLS |-> Null ]

handleLogout(s) ==
  [ cookies |-> deleteCookie(deleteCookie(s.cookies, "userToken"), "userData"),
    user |-> NoUser,
    currentPage |-> "welcome",
    selectedSubject |-> Null,
    selectedTopic |-> Null,
    activeTab |-> "search",
    viewingFile |-> Null,
    showFilePreview |-> FALSE,
    showUserProfile |-> FALSE,
    userAvatar |-> Null,
    avatarLS |-> Null ]

\* user?.userType
UserType(u) == IF u = NoUser THEN "undefined" ELSE u.userType

OnMain == mounted /\ currentPage = "main"
Dashboard == OnMain /\ ~showUserProfile
SearchTab == Dashboard /\ activeTab = "search"
Previewing == showFilePreview /\ viewingFile # Null

\* the guest's logout button of the dashboard header, or the profile page's onLogout
HandleLogout ==
  /\ OnMain
  /\ showUserProfile \/ UserType(user) = "guest"
  /\ LET s == handleLogout(AppState)
     IN /\ cookies' = s.cookies
        /\ user' = s.user
        /\ currentPage' = s.currentPage
        /\ selectedSubject' = s.selectedSubject
        /\ selectedTopic' = s.selectedTopic
        /\ activeTab' = s.activeTab
        /\ viewingFile' = s.viewingFile
        /\ showFilePreview' = s.showFilePreview
        /\ showUserProfile' = s.showUserProfile
        /\ userAvatar' = s.userAvatar
        /\ avatarLS' = s.avatarLS
  /\ ev' = "logout"
  /\ UNCHANGED << mounted, histVars, loginVars, authTokenLS, callVars, fileStartTime,
                  themeVars, signupVars, apiVars, usageVars, subjectVars >>
  /\ durationEffect

\* the avatar, shown in place of the logout button to everyone but a guest
showUserProfilePage ==
  /\ Dashboard /\ UserType(user) # "guest"
  /\ showUserProfile' = TRUE
  /\ ev' = "showUserProfilePage"
  /\ UNCHANGED << mounted, currentPage, user, navVars, activeTab, histVars,
                  loginVars, storeVars, callVars, fileStartTime, avatarVars, themeVars,
                  signupVars, apiVars,
                  usageVars, subjectVars, durationVars >>

backToMain ==
  /\ OnMain /\ showUserProfile
  /\ showUserProfile' = FALSE
  /\ ev' = "backToMain"
  /\ UNCHANGED << mounted, currentPage, user, navVars, activeTab, histVars,
                  loginVars, storeVars, callVars, fileStartTime, avatarVars, themeVars,
                  signupVars, apiVars,
                  usageVars, subjectVars, durationVars >>

\* the profile page's avatar input, with the reader.onload it registers: the
\* read of the chosen file is taken to end before the next handler runs
handleAvatarUpload ==
  /\ OnMain /\ showUserProfile
  /\ userAvatar' = "data:image"
  /\ avatarLS' = "data:image"
  /\ ev' = "avatarUpload"
  /\ UNCHANGED << mounted, currentPage, user, navVars, activeTab, showUserProfile,
                  histVars, loginVars, storeVars, callVars, fileStartTime, themeVars,
                  signupVars, apiVars,
                  usageVars, subjectVars, durationVars >>

\* ------------------------------------------------------------ navigation
\* the interval of the duration effect fires
durationTick ==
  /\ durationTimers > 0
  /\ currentDuration' = 1
  /\ ev' = "durationTick"
  /\ UNCHANGED << mounted, currentPage, user, navVars, activeTab, showUserProfile,
                  histVars, loginVars, storeVars, callVars, fileStartTime, avatarVars,
                  themeVars, signupVars, apiVars, usageVars, subjectVars, durationTimers >>

navFrame ==
  UNCHANGED << mounted, currentPage, user, showUserProfile, loginVars, storeVars,
               callVars, avatarVars, themeVars, signupVars, apiVars, usageVars, subjectVars >>

\* faulty variant: the topic chosen before stays
handleSubjectClickKeepsTopic(subjectKey) ==
  /\ SearchTab
  /\ selectedSubject' = subjectKey
  /\ showFilePreview' = FALSE
  /\ viewingFile' = Null
  /\ ev' = "subjectClick"
  /\ navFrame /\ UNCHANGED << selectedTopic, activeTab, histVars, fileStartTime >>
  /\ durationEffect

\* the sidebar's subject list (always there on the search tab) and the subject cards
handleSubjectClick(subjectKey) ==
  /\ SearchTab
  /\ selectedSubject' = subjectKey
  /\ selectedTopic' = Null
  /\ showFilePreview' = FALSE
  /\ viewingFile' = Null
  /\ ev' = "subjectClick"
  /\ navFrame /\ UNCHANGED << activeTab, histVars, fileStartTime >>
  /\ durationEffect

\* the topic cards of the selected subject
handleTopicClick(topic) ==
  /\ SearchTab /\ ~Previewing
  /\ selectedSubject # Null /\ selectedTopic = Null
  /\ topic \in subjectsData[selectedSubject]
  /\ selectedTopic' = topic
  /\ showFilePreview' = FALSE
  /\ viewingFile' = Null
  /\ ev' = "topicClick"
  /\ navFrame /\ UNCHANGED << selectedSubject, activeTab, histVars, fileStartTime >>
  /\ durationEffect

\* adds and (id,type) keys since the list was last empty
noteAdd(stored, item) ==
  IF getHistory(stored) = <<>>
    THEN /\ addsSinceEmpty' = 1
         /\ keysSinceEmpty' = {<<item.id, item.type>>}
    ELSE /\ addsSinceEmpty' = addsSinceEmpty + 1
         /\ keysSinceEmpty' = keysSinceEmpty \cup {<<item.id, item.type>>}

\* the View button of a paper card of the selected topic
handleFileView(i) ==
  /\ SearchTab /\ ~Previewing
  /\ selectedSubject # Null /\ selectedTopic # Null
  /\ histAdds < MaxViews
  /\ LET title == FileTitle(selectedTopic, i)
         item == [type |-> "file", id |-> title, name |-> title]
     IN /\ viewingFile' = title
        /\ showFilePreview' = TRUE
        /\ fileStartTime' = clock + 1
        /\ storedHistory' = addToHistory(storedHistory, item, clock + 1)
        /\ noteAdd(storedHistory, item)
  /\ clock' = clock + 1
  /\ histAdds' = histAdds + 1
  /\ browsingHistory' = getHistory(storedHistory')
  /\ ev' = "fileView"
  /\ navFrame /\ UNCHANGED << selectedSubject, selectedTopic, activeTab >>
  /\ durationEffect

\* faulty variant: the file stays set behind the closed preview
closeFilePreviewKeepsFile ==
  /\ SearchTab /\ Previewing
  /\ showFilePreview' = FALSE
  /\ fileStartTime' = 0
  /\ ev' = "closeFilePreview"
  /\ navFrame
  /\ UNCHANGED << selectedSubject, selectedTopic, activeTab, histVars, viewingFile >>
  /\ durationEffect

\* the close button of the preview
closeFilePreview ==
  /\ SearchTab /\ Previewing
  /\ showFilePreview' = FALSE
  /\ viewingFile' = Null
  /\ fileStartTime' = 0
  /\ ev' = "closeFilePreview"
  /\ navFrame /\ UNCHANGED << selectedSubject, selectedTopic, activeTab, histVars >>
  /\ durationEffect

\* faulty variant: only the subject is cleared
goBackToSubjectsPartial ==
  /\ SearchTab
  /\ (selectedSubject # Null /\ ~showFilePreview) \/ Previewing
  /\ selectedSubject' = Null
  /\ ev' = "goBackToSubjects"
  /\ navFrame
  /\ UNCHANGED << selectedTopic, viewingFile, showFilePreview, activeTab, histVars,
                  fileStartTime >>
  /\ durationEffect

\* breadcrumb "All Subjects"
goBackToSubjects ==
  /\ SearchTab
  /\ (selectedSubject # Null /\ ~showFilePreview) \/ Previewing
  /\ selectedSubject' = Null
  /\ selectedTopic' = Null
  /\ showFilePreview' = FALSE
  /\ viewingFile' = Null
  /\ ev' = "goBackToSubjects"
  /\ navFrame /\ UNCHANGED << activeTab, histVars, fileStartTime >>
  /\ durationEffect

\* faulty variant: the open file is left open
goBackToTopicsKeepsFile ==
  /\ SearchTab
  /\ (selectedSubject # Null /\ selectedTopic # Null /\ ~showFilePreview) \/ Previewing
  /\ selectedTopic' = Null
  /\ ev' = "goBackToTopics"
  /\ navFrame
  /\ UNCHANGED << selectedSubject, viewingFile, showFilePreview, activeTab, histVars,
                  fileStartTime >>
  /\ durationEffect

\* breadcrumb link carrying the subject's name
goBackToTopics ==
  /\ SearchTab
  /\ (selectedSubject # Null /\ selectedTopic # Null /\ ~showFilePreview) \/ Previewing
  /\ selectedTopic' = Null
  /\ showFilePreview' = FALSE
  /\ viewingFile' = Null
  /\ ev' = "goBackToTopics"
  /\ navFrame /\ UNCHANGED << selectedSubject, activeTab, histVars, fileStartTime >>
  /\ durationEffect

\* the toolbar, rendered for the user role only
setActiveTab(tab) ==
  /\ Dashboard /\ UserType(user) = "user"
  /\ activeTab' = tab
  /\ ev' = "setActiveTab"
  /\ navFrame /\ UNCHANGED << navVars, histVars, fileStartTime >>
  /\ durationEffect

\* the button of the history tab
clearBrowsingHistory ==
  /\ Dashboard /\ activeTab = "history"
  /\ storedHistory' = clearHistory(storedHistory)
  /\ browsingHistory' = <<>>
  /\ addsSinceEmpty' = 0 /\ keysSinceEmpty' = {}
  /\ ev' = "clearHistory"
  /\ navFrame /\ UNCHANGED << navVars, activeTab, clock, histAdds, fileStartTime >>
  /\ durationEffect

\* ------------------------------------------------------------ page loads
\* a new document: every useState starts over, calls in flight are dropped
loadPage(why) ==
  /\ mounted' = FALSE
  /\ currentPage' = "welcome"
  /\ user' = NoUser
  /\ selectedSubject' = Null /\ selectedTopic' = Null
  /\ viewingFile' = Null /\ showFilePreview' = FALSE
  /\ activeTab' = "search" /\ showUserProfile' = FALSE
  /\ browsingHistory' = <<>>
  /\ message' = "" /\ loading' = FALSE
  /\ valCall' = NoCall /\ loginCall' = FALSE /\ staleLogin' = FALSE
  /\ navPending' = FALSE
  /\ fileStartTime' = 0
  /\ userAvatar' = Null
  /\ theme' = "light" /\ bodyClass' = ""
  /\ formData' = EmptyForm
  /\ registerCall' = FALSE /\ staleRegister' = FALSE
  /\ signupTimers' = <<>>
  /\ durationTimers' = 0 /\ currentDuration' = 0
  /\ dailyUsageLS' = IF mounted THEN handleBeforeUnload(dailyUsageLS, dateNow, usageClosureStart)
                                ELSE dailyUsageLS
  /\ dailyUsageData' = dailyUsageLS'
  /\ sessionStartTime' = dateNow /\ usageClosureStart' = dateNow
  /\ usageDue' = 0
  /\ ev' = why
  /\ showSubjectModal' = FALSE
  /\ selectedSubjects' = DefaultSubjects
  /\ UNCHANGED << storeVars, avatarLS, themeLS, storedHistory, clock, histAdds,
                  addsSinceEmpty, keysSinceEmpty, apiVars, dateNow, selectedSubjectsLS,
                  userProfileLS, toggles >>

\* the navigation the response interceptor asked for
redirectToLogin ==
  /\ navPending
  /\ loadPage("redirect")

\* the browser's reload button
reload ==
  /\ mounted /\ ~navPending
  /\ loadPage("reload")

Next ==
  \/ checkCookieAndSession
  \/ \E o \in ValidateOutcomes : checkCookieAndSessionResume(o)
  \/ showLogin
  \/ showSignUp
  \/ showWelcome
  \/ handleLoginSubmit
  \/ \E o \in LoginOutcomes, u \in UserData : handleLoginSubmitResume(o, u)
  \/ \E o \in LoginOutcomes, u \in UserData : staleLoginSubmitResume(o, u)
  \/ HandleLogout
  \/ showUserProfilePage
  \/ backToMain
  \/ durationTick
  \/ handleAvatarUpload
  \/ \E k \in SubjectKeys : handleSubjectClick(k)
  \/ \E t \in UNION {subjectsData[k] : k \in SubjectKeys} : handleTopicClick(t)
  \/ \E i \in 1..MaxPaper : handleFileView(i)
  \/ closeFilePreview
  \/ goBackToSubjects
  \/ goBackToTopics
  \/ \E t \in Tabs : setActiveTab(t)
  \/ clearBrowsingHistory
  \/ redirectToLogin
  \/ reload

Spec == Init /\ [][Next]_vars

\* ------------------------------------------------------------ SpecHistory
\* HistoryUtils on its own: the list starts as earlier adds of distinct papers
\* left it, then any items are added and the list cleared in any order

\* the n-th of the distinct papers the initial list is built from
paperItem(n) ==
  [type |-> "file", id |-> "paper" \o ToString(n), name |-> "paper" \o ToString(n)]

\* items that are added again and again: a file and a topic sharing an id,
\* another file, and the paper at the tail of the initial lists
RepeatItems ==
  { [type |-> "file", id |-> "9709", name |-> "9709"],
    [type |-> "topic", id |-> "9709", name |-> "A Level Mathematics"],
    [type |-> "file", id |-> "9702", name |-> "9702"],
    paperItem(1) }

\* the stored list after paperItem(1) .. paperItem(n) were added to an empty
\* history at times 1 .. n: each add prepends, so the newest paper is first
prefill(n) ==
  IF n = 0 THEN NoHistoryKey
  ELSE [present |-> TRUE,
        list |-> [i \in 1..n |->
                   [id |-> paperItem(n + 1 - i).id, type |-> paperItem(n + 1 - i).type,
                    name |-> paperItem(n + 1 - i).name,
                    visitCount |-> 1, lastVisited |-> n + 1 - i]]]

PrefillLens == {0} \cup ((HistoryLimit - PrefillSlack)..HistoryLimit)

InitHistory ==
  /\ InMemoryInit
  /\ cookies = EmptyJar /\ authTokenLS = Null /\ avatarLS = Null /\ themeLS = Null
  /\ selectedSubjectsLS = NoSubjectsKey /\ userProfileLS = Null
  /\ \E n \in PrefillLens :
       /\ storedHistory = prefill(n)
       /\ n > 0 => prefill(n) = addToHistory(prefill(n - 1), paperItem(n), n)
       /\ clock = n
       /\ addsSinceEmpty = n
       /\ keysSinceEmpty = {<<paperItem(k).id, paperItem(k).type>> : k \in 1..n}
  /\ histAdds = 0
  /\ ev = "init"

historyFrame ==
  UNCHANGED << mounted, currentPage, user, navVars, activeTab, showUserProfile,
               browsingHistory, loginVars, storeVars, callVars, fileStartTime,
               avatarVars, themeVars, signupVars, apiVars,
                  usageVars, subjectVars, durationVars >>

\* HistoryUtils.addToHistory(item) at time clock + 1
histAdd(item) ==
  /\ histAdds < MaxAdds
  /\ storedHistory' = addToHistory(storedHistory, item, clock + 1)
  /\ noteAdd(storedHistory, item)
  /\ clock' = clock + 1
  /\ histAdds' = histAdds + 1
  /\ ev' = IF findIndex(getHistory(storedHistory), item) # 0 THEN "addAgain" ELSE "addNew"
  /\ historyFrame

\* an item never added before (the clock numbers it)
histAddPaper == histAdd(paperItem(clock + 1))

histAddRepeat == \E item \in RepeatItems : histAdd(item)

\* HistoryUtils.clearHistory()
histClear ==
  /\ storedHistory' = clearHistory(storedHistory)
  /\ addsSinceEmpty' = 0 /\ keysSinceEmpty' = {}
  /\ ev' = "clearHistory"
  /\ UNCHANGED << clock, histAdds >>
  /\ historyFrame

NextHistory ==
  \/ histAddPaper
  \/ histAddRepeat
  \/ histClear

SpecHistory == InitHistory /\ [][NextHistory]_vars

\* ------------------------------------------------------------ SpecSignup
\* the signup form of the Login component and its timeout, in an App that
\* validates the session it finds at startup and can be logged out of

\* what is typed into a field: empty or filled, and the confirmation can be a
\* password of its own
FieldValues(field) ==
  CASE field = "signupPassword"        -> {"", "p"}
    [] field = "signupConfirmPassword" -> {"", "p", "q"}
    [] OTHER                           -> {"", "x"}

\* the fields typed into: those of the signup form (what the login form holds
\* reaches nothing but the arguments of the remote call)
TypedFields == SignupFields

loginFrame ==
  UNCHANGED << mounted, user, navVars, activeTab, showUserProfile, histVars,
               fileStartTime, avatarVars, themeVars, apiVars,
                  usageVars, subjectVars, durationVars >>

\* the onChange of an input of the form shown (inputs are disabled while loading)
handleInputChange(field, value) ==
  /\ LoginMounted /\ ~loading
  /\ \/ currentPage = "login" /\ field \in LoginFields
     \/ currentPage = "signup" /\ field \in SignupFields
  /\ formData[field] # value
  /\ formData' = [formData EXCEPT ![field] = value]
  /\ ev' = "inputChange"
  /\ loginFrame
  /\ UNCHANGED << currentPage, loginVars, storeVars, callVars, registerCall,
                  staleRegister, signupTimers >>

\* faulty variant: the two passwords are not compared
passwordsMatchAlways(form) == TRUE

\* the check handleSignupSubmit makes before it calls the gateway
passwordsMatch(form) == form["signupPassword"] = form["signupConfirmPassword"]

signupsUnderWay ==
  Len(signupTimers) + (IF registerCall THEN 1 ELSE 0) + (IF staleRegister THEN 1 ELSE 0)

\* handleSignupSubmit up to its return or its await (the submit button is
\* disabled while loading)
handleSignupSubmit ==
  /\ LoginMounted /\ currentPage = "signup" /\ ~loading
  /\ signupsUnderWay < MaxSignups
  /\ IF ~passwordsMatch(formData)
       THEN /\ message' = "mismatch"
            /\ loading' = FALSE
            /\ registerCall' = registerCall
            /\ ev' = "signupMismatch"
       ELSE /\ message' = ""
            /\ loading' = TRUE
            /\ registerCall' = TRUE
            /\ ev' = "signupSubmit"
  /\ loginFrame
  /\ UNCHANGED << currentPage, formData, storeVars, callVars, staleRegister,
                  signupTimers >>

\* the fields handleSignupSubmit clears on success
signupFieldsCleared(form) ==
  [f \in DOMAIN form |-> IF f \in SignupFields THEN "" ELSE form[f]]

\* handleSignupSubmit after its await; live says whether the Login instance that
\* submitted is still the mounted one
signupResume(live, outcome, u) ==
  LET s == registerStores(Stores, outcome, u)
      response == registerEnvelope(outcome, u)
  IN /\ authTokenLS' = s.authTokenLS
     /\ cookies' = s.cookies
     /\ navPending' = s.navPending
     /\ message' = IF live THEN response.message ELSE message
     /\ formData' = IF live /\ response.success THEN signupFieldsCleared(formData)
                    ELSE formData
     /\ signupTimers' = IF response.success
                          THEN Append(signupTimers, [left |-> SignupDelay, live |-> live])
                          ELSE signupTimers
     /\ loading' = IF live THEN FALSE ELSE loading
     /\ registerCall' = IF live THEN FALSE ELSE registerCall
     /\ staleRegister' = IF live THEN staleRegister ELSE FALSE
     /\ ev' = (IF live THEN "signup" ELSE "lateSignup")
                \o (IF response.success THEN "Ok"
                    ELSE IF outcome = "fail" THEN "Rejected" ELSE "Error")
     /\ loginFrame
     /\ UNCHANGED << currentPage, valCall, loginCall, staleLogin >>

handleSignupSubmitResume(outcome, u) ==
  /\ registerCall
  /\ signupResume(TRUE, outcome, u)

staleSignupSubmitResume(outcome, u) ==
  /\ staleRegister
  /\ signupResume(FALSE, outcome, u)

\* a second passes
tick ==
  /\ \E i \in 1..Len(signupTimers) : signupTimers[i].left > 0
  /\ signupTimers' = [i \in 1..Len(signupTimers) |->
                        [signupTimers[i] EXCEPT !.left = IF @ > 0 THEN @ - 1 ELSE 0]]
  /\ ev' = "tick"
  /\ loginFrame
  /\ UNCHANGED << currentPage, loginVars, storeVars, callVars, formData, registerCall,
                  staleRegister >>

\* faulty variant: the timeout does not wait
timerDueAtOnce(t) == TRUE

\* the delay of a timeout has passed
timerDue(t) == t.left = 0

\* the callback of the timeout set by a successful signup
signupTimeout(i) ==
  /\ i \in 1..Len(signupTimers)
  /\ timerDue(signupTimers[i])
  /\ currentPage' = "login"
  /\ message' = IF signupTimers[i].live THEN "" ELSE message
  /\ signupTimers' = [j \in 1..(Len(signupTimers) - 1) |->
                        IF j < i THEN signupTimers[j] ELSE signupTimers[j + 1]]
  /\ ev' = "signupTimeout"
  /\ loginFrame
  /\ UNCHANGED << loading, storeVars, callVars, formData, registerCall, staleRegister >>

\* the theme button of the login pages and of the dashboard header
toggleTheme ==
  /\ LoginMounted \/ Dashboard
  /\ theme' = newTheme(theme)
  /\ themeLS' = newTheme(theme)
  /\ bodyClass' = bodyClassName(newTheme(theme))
  /\ ev' = "toggleTheme"
  /\ UNCHANGED << mounted, currentPage, user, navVars, activeTab, showUserProfile,
                  histVars, loginVars, storeVars, callVars, fileStartTime, avatarVars,
                  signupVars, apiVars,
                  usageVars, subjectVars, durationVars >>

NextSignup ==
  \/ checkCookieAndSession
  \/ \E o \in ValidateOutcomes : checkCookieAndSessionResume(o)
  \/ showLogin
  \/ showSignUp
  \/ showWelcome
  \/ \E f \in TypedFields : \E v \in FieldValues(f) : handleInputChange(f, v)
  \/ handleSignupSubmit
  \/ \E o \in RegisterOutcomes, u \in UserData : handleSignupSubmitResume(o, u)
  \/ \E o \in RegisterOutcomes, u \in UserData : staleSignupSubmitResume(o, u)
  \/ tick
  \/ \E i \in 1..MaxSignups : signupTimeout(i)
  \/ HandleLogout
  \/ redirectToLogin

SpecSignup == Init /\ [][NextSignup]_vars

\* ------------------------------------------------------------ SpecTheme
\* the theme button in the App with its login, its logout and its page loads

NextTheme ==
  \/ checkCookieAndSession
  \/ \E o \in ValidateOutcomes : checkCookieAndSessionResume(o)
  \/ showLogin
  \/ showSignUp
  \/ showWelcome
  \/ handleLoginSubmit
  \/ \E o \in LoginOutcomes, u \in UserData : handleLoginSubmitResume(o, u)
  \/ \E o \in LoginOutcomes, u \in UserData : staleLoginSubmitResume(o, u)
  \/ HandleLogout
  \/ showUserProfilePage
  \/ backToMain
  \/ toggleTheme
  \/ redirectToLogin
  \/ reload

SpecTheme == Init /\ [][NextTheme]_vars

\* ------------------------------------------------------------ SpecUsage
\* the daily usage record of one page session after another, on one calendar date
MaxTime == 6

usageFrame ==
  UNCHANGED << mounted, currentPage, user, navVars, activeTab, showUserProfile,
               histVars, loginVars, storeVars, callVars, fileStartTime, avatarVars,
               themeVars, signupVars, apiVars, durationVars, subjectVars >>

\* time passes: timers fire when the browser gets to them, at or after their time
passTime ==
  /\ mounted /\ dateNow < MaxTime
  /\ dateNow' = dateNow + 1
  /\ ev' = "passTime"
  /\ usageFrame
  /\ UNCHANGED << sessionStartTime, usageClosureStart, usageDue, dailyUsageData,
                  dailyUsageLS >>

\* updateDailyUsage, the callback of the interval of the effect in force
usageTick ==
  /\ mounted /\ usageClosureStart = sessionStartTime
  /\ dateNow >= usageDue
  /\ dailyUsageData' = updateDailyUsage(dailyUsageData)
  /\ dailyUsageLS' = dailyUsageData'
  /\ sessionStartTime' = dateNow
  /\ usageDue' = usageDue + UsagePeriod
  /\ ev' = "usageTick"
  /\ usageFrame
  /\ UNCHANGED << dateNow, usageClosureStart >>

\* sessionStartTime changed: the cleanup of the effect (clearInterval and the flush
\* of handleBeforeUnload with the sessionStartTime of its run), then the new run
usageEffectCleanup ==
  /\ mounted /\ usageClosureStart # sessionStartTime
  /\ dailyUsageLS' = handleBeforeUnload(dailyUsageLS, dateNow, usageClosureStart)
  /\ usageClosureStart' = sessionStartTime
  /\ usageDue' = dateNow + UsagePeriod
  /\ ev' = "usageCleanup"
  /\ usageFrame
  /\ UNCHANGED << dateNow, sessionStartTime, dailyUsageData >>

NextUsage ==
  \/ checkCookieAndSession
  \/ passTime
  \/ usageTick
  \/ usageEffectCleanup
  \/ reload

SpecUsage == Init /\ [][NextUsage]_vars

\* ------------------------------------------------------------ SpecSubjects
\* the subject selection of the profile page
MaxSubjects == 7
MaxToggles == 4

\* the most subjects toggleSubjectSelection lets in
MaxSelected == 6

\* the ids of availableSubjects, of which the model has the first MaxSubjects
availableSubjects == 1..MaxSubjects

isSelected(prev, subject) == \E i \in 1..Len(prev) : prev[i] = subject

\* faulty variant: no limit on the number of subjects
toggleSubjectsUncapped(prev, subject) ==
  IF isSelected(prev, subject)
    THEN SelectSeq(prev, LAMBDA s : s # subject)
    ELSE Append(prev, subject)

\* the updater of toggleSubjectSelection
toggleSubjects(prev, subject) ==
  IF isSelected(prev, subject)
    THEN SelectSeq(prev, LAMBDA s : s # subject)
    ELSE IF Len(prev) < MaxSelected THEN Append(prev, subject)
    ELSE prev

subjectFrame ==
  UNCHANGED << mounted, currentPage, user, navVars, activeTab, showUserProfile,
               histVars, loginVars, storeVars, callVars, fileStartTime, avatarVars,
               themeVars, signupVars, apiVars, durationVars, usageVars, userProfileLS >>

\* the profile page's button that opens the subject modal
openSubjectModal ==
  /\ OnMain /\ showUserProfile /\ ~showSubjectModal
  /\ showSubjectModal' = TRUE
  /\ ev' = "openSubjectModal"
  /\ subjectFrame
  /\ UNCHANGED << selectedSubjects, selectedSubjectsLS, toggles >>

\* the overlay, the close button and the cancel button of the modal
closeSubjectModal ==
  /\ showSubjectModal
  /\ showSubjectModal' = FALSE
  /\ ev' = "closeSubjectModal"
  /\ subjectFrame
  /\ UNCHANGED << selectedSubjects, selectedSubjectsLS, toggles >>

\* a card of the modal
toggleSubjectSelection(subject) ==
  /\ showSubjectModal /\ toggles < MaxToggles
  /\ selectedSubjects' = toggleSubjects(selectedSubjects, subject)
  /\ toggles' = toggles + 1
  /\ ev' = "toggleSubject"
  /\ subjectFrame
  /\ UNCHANGED << showSubjectModal, selectedSubjectsLS >>

\* the confirm button of the modal: the list is written as it stands
confirmSubjectSelection ==
  /\ showSubjectModal
  /\ showSubjectModal' = FALSE
  /\ selectedSubjectsLS' = [present |-> TRUE, value |-> selectedSubjects]
  /\ ev' = "confirmSubjects"
  /\ subjectFrame
  /\ UNCHANGED << selectedSubjects, toggles >>

\* a load of the page by someone who is no guest, with the session of an earlier
\* visit in the cookies
InitSubjects ==
  /\ InMemoryInit
  /\ \E u \in {x \in UserData : x.userType # "guest"} :
       /\ cookies = LeftSession(u, JSONstringify(u))
       /\ authTokenLS = u.token
  /\ avatarLS = Null /\ themeLS = Null
  /\ selectedSubjectsLS = NoSubjectsKey /\ userProfileLS = Null
  /\ storedHistory = NoHistoryKey
  /\ clock = 0 /\ histAdds = 0
  /\ addsSinceEmpty = 0 /\ keysSinceEmpty = {}
  /\ ev = "init"

NextSubjects ==
  \/ checkCookieAndSession
  \/ \E o \in ValidateOutcomes : checkCookieAndSessionResume(o)
  \/ showUserProfilePage
  \/ openSubjectModal
  \/ closeSubjectModal
  \/ \E subject \in availableSubjects : toggleSubjectSelection(subject)
  \/ confirmSubjectSelection
  \/ reload

SpecSubjects == InitSubjects /\ [][NextSubjects]_vars

\* ------------------------------------------------------------ SpecLogout
\* logout with the durable state earlier visits have left
InitLogout ==
  /\ InMemoryInit
  /\ \E u \in UserData :
       /\ cookies = setCookie(LeftSession(u, JSONstringify(u)), "authToken", u.token,
                              AuthCookieDays)
       /\ authTokenLS = u.token
  /\ avatarLS \in {Null, "data:image"}
  /\ themeLS \in {Null, "dark"}
  /\ userProfileLS \in {Null, "saved"}
  /\ selectedSubjectsLS \in {NoSubjectsKey, [present |-> TRUE, value |-> << 2, 3 >>]}
  /\ \E n \in {0, 1} :
       /\ storedHistory = prefill(n)
       /\ clock = n
       /\ addsSinceEmpty = n
       /\ keysSinceEmpty = {<<paperItem(i).id, paperItem(i).type>> : i \in 1..n}
  /\ histAdds = 0
  /\ ev = "init"

NextLogout ==
  \/ checkCookieAndSession
  \/ \E o \in ValidateOutcomes : checkCookieAndSessionResume(o)
  \/ showUserProfilePage
  \/ HandleLogout
  \/ passTime
  \/ usageTick
  \/ usageEffectCleanup
  \/ reload

SpecLogout == InitLogout /\ [][NextLogout]_vars

\* ------------------------------------------------------------ SpecMock
\* the mock gateway of the single-file App: login called on its own with any
\* username and password, at successive times

\* the mock user table
users ==
  [u \in {"tzy", "TZY"} |->
     IF u = "tzy" THEN [password |-> "123456", userType |-> "guest", email |-> "tzy@example.com"]
     ELSE [password |-> "123456", userType |-> "user", email |-> "test@example.com"]]

\* names every object literal inherits from Object.prototype
InheritedNames == {"constructor", "toString"}

\* users[username]: an entry of the table, an inherited property (truthy, and
\* without a password), or undefined
usersLookup(username) ==
  IF username \in DOMAIN users
    THEN [truthy |-> TRUE, own |-> TRUE]
    ELSE [truthy |-> username \in InheritedNames, own |-> FALSE]

\* faulty variant: the password is not compared
mockLoginAnyPassword(username, password, now) ==
  LET entry == usersLookup(username)
  IN IF entry.truthy /\ entry.own
       THEN [success |-> TRUE, hasData |-> TRUE,
             data |-> [username |-> username, userType |-> users[username].userType,
                       email |-> users[username].email,
                       token |-> "mock_token_" \o ToString(now)],
             message |-> ""]
       ELSE [success |-> FALSE, hasData |-> FALSE, data |-> NoUser, message |-> "wrong"]

\* the mock ApiService.login, answering at time now; password is a string, so
\* the undefined password of an inherited property never equals it
mockLogin(username, password, now) ==
  LET entry == usersLookup(username)
  IN IF entry.truthy /\ entry.own /\ users[username].password = password
       THEN [success |-> TRUE, hasData |-> TRUE,
             data |-> [username |-> username, userType |-> users[username].userType,
                       email |-> users[username].email,
                       token |-> "mock_token_" \o ToString(now)],
             message |-> ""]
       ELSE [success |-> FALSE, hasData |-> FALSE, data |-> NoUser, message |-> "wrong"]

MockUsernames == {"TZY", "tzy", "Tzy", "nope", "", "constructor", "toString", "123456"}
MockPasswords == {"123456", "12345", "", "TZY", "undefined"}

\* what a direct call of a gateway method leaves alone
apiFrame ==
  UNCHANGED << mounted, currentPage, user, navVars, activeTab, showUserProfile,
               browsingHistory, storedHistory, histAdds, addsSinceEmpty, keysSinceEmpty,
               loginVars, valCall, loginCall, staleLogin, fileStartTime, avatarVars,
               themeVars, signupVars, usageVars, subjectVars, durationVars >>

InitMock ==
  /\ InMemoryInit
  /\ cookies = EmptyJar /\ authTokenLS = Null /\ avatarLS = Null /\ themeLS = Null
  /\ selectedSubjectsLS = NoSubjectsKey /\ userProfileLS = Null
  /\ storedHistory = NoHistoryKey
  /\ clock = 0 /\ histAdds = 0
  /\ addsSinceEmpty = 0 /\ keysSinceEmpty = {}
  /\ ev = "init"

callMockLogin(username, password) ==
  /\ clock < MaxMockCalls
  /\ clock' = clock + 1
  /\ apiCall' = [name |-> "mockLogin", username |-> username, password |-> password]
  /\ apiResult' = mockLogin(username, password, clock + 1)
  /\ ev' = "mockLogin"
  /\ apiFrame /\ UNCHANGED << storeVars, navPending >>

NextMock == \E username \in MockUsernames, password \in MockPasswords :
              callMockLogin(username, password)

SpecMock == InitMock /\ [][NextMock]_vars

\* ------------------------------------------------------------ SpecGateway
\* the methods of ApiService called on their own, in any order, on the stores
\* an earlier visit left

InitGateway ==
  /\ InMemoryInit
  /\ \E s \in InitStores : cookies = s.cookies /\ authTokenLS = s.authTokenLS
  /\ avatarLS = Null /\ themeLS = Null
  /\ selectedSubjectsLS = NoSubjectsKey /\ userProfileLS = Null
  /\ storedHistory = NoHistoryKey
  /\ clock = 0 /\ histAdds = 0
  /\ addsSinceEmpty = 0 /\ keysSinceEmpty = {}
  /\ ev = "init"

\* a method was called; s is what it made of the stores
gatewayCall(name, outcome, s, result) ==
  /\ cookies' = s.cookies
  /\ authTokenLS' = s.authTokenLS
  /\ navPending' = s.navPending
  /\ apiCall' = [name |-> name, outcome |-> outcome, tokenBefore |-> authTokenLS]
  /\ apiResult' = result
  /\ ev' = name
  /\ apiFrame /\ UNCHANGED clock

callLogin(outcome, u) ==
  gatewayCall("login", outcome, loginStores(Stores, outcome, u),
              [isNull |-> FALSE, success |-> loginEnvelope(outcome, u).success])

callRegister(outcome, u) ==
  gatewayCall("register", outcome, registerStores(Stores, outcome, u),
              [isNull |-> FALSE, success |-> registerEnvelope(outcome, u).success])

callValidateSession(outcome) ==
  gatewayCall("validateSession", outcome, responseInterceptor(Stores, outcome),
              validateSession(outcome))

callLogout(outcome) ==
  gatewayCall("logout", outcome, logoutStores(Stores, outcome), logoutEnvelope(outcome))

NextGateway ==
  \/ \E o \in LoginOutcomes, u \in UserData : callLogin(o, u)
  \/ \E o \in RegisterOutcomes, u \in UserData : callRegister(o, u)
  \/ \E o \in ValidateOutcomes : callValidateSession(o)
  \/ \E o \in LogoutOutcomes : callLogout(o)

SpecGateway == InitGateway /\ [][NextGateway]_vars

\* ================================================================ claims

\* C1 -- at startup with both cookies present and a validation that succeeds,
\* the machine reaches main with the stored user restored, and currentPage is
\* never welcome, login or signup while the validation is pending.
C1_ResumeNeverShowsWelcome ==
  /\ (valCall.pending => currentPage \notin {"welcome", "login", "signup"})
  /\ (ev = "resumed" => currentPage = "main" /\ user # NoUser)

\* C2 -- whenever the startup resume does not succeed (validateSession answers
\* success:false, the validation raises, or the stored user cannot be
\* restored), the machine is on welcome and the userToken and userData cookies
\* are absent.
C2_FailedResumeClearsCookies ==
  ev \in {"resumeRejected", "resumeRaised"} =>
    /\ currentPage = "welcome"
    /\ ~cookies["userToken"].present
    /\ ~cookies["userData"].present

\* C3 -- when a login submit has succeeded and moved the machine to main, the
\* userToken and userData cookies hold the returned token and the serialized
\* user, with a 7-day expiry.
C3_LoginPersistsSession ==
  ev \in {"loginOk", "lateLoginOk"} =>
    /\ currentPage = "main"
    /\ user \in UserData
    /\ cookies["userToken"] = [present |-> TRUE, value |-> user.token, days |-> 7]
    /\ cookies["userData"] = [present |-> TRUE, value |-> JSONstringify(user), days |-> 7]

C3_Witness ==
  /\ ev = "loginOk" /\ currentPage = "main"
  /\ user \in UserData /\ user.userType = "user"
  /\ getCookie(cookies, "userToken") = "tok1"

\* C4 -- a login submit that fails persists nothing (the userToken and
\* userData cookies are as before, no authToken is written), leaves user and
\* currentPage as they were (unset, and login), and shows the gateway's
\* message with the loading flag reset.
C4_FailedLoginStep ==
  ev' \in {"loginRejected", "loginError", "lateLoginRejected", "lateLoginError"} =>
    /\ cookies'["userToken"] = cookies["userToken"]
    /\ cookies'["userData"] = cookies["userData"]
    /\ cookies'["authToken"] \in {cookies["authToken"], NoCookie}
    /\ authTokenLS' \in {authTokenLS, Null}
    /\ user' = user
    /\ currentPage' = currentPage
    /\ ev' \in {"loginRejected", "loginError"} =>
         /\ message' = (IF ev' = "loginRejected" THEN "server" ELSE "network")
         /\ ~loading'
         /\ user = NoUser => user' = NoUser

C4_FailedLoginPersistsNothing == [][C4_FailedLoginStep]_vars

C4_Witness ==
  /\ ev = "loginRejected" /\ currentPage = "login" /\ user = NoUser
  /\ message = "server" /\ ~loading
  /\ ~cookies["userToken"].present /\ ~cookies["userData"].present
  /\ ~cookies["authToken"].present /\ authTokenLS = Null

\* C5 -- logout deletes the userToken and userData cookies, sets user to null,
\* resets selectedSubject, selectedTopic and viewingFile to null, activeTab to
\* search and showFilePreview to false, and sets currentPage to welcome.
C5_LogoutResetsEverything ==
  ev = "logout" =>
    /\ ~cookies["userToken"].present /\ ~cookies["userData"].present
    /\ user = NoUser
    /\ selectedSubject = Null /\ selectedTopic = Null /\ viewingFile = Null
    /\ activeTab = "search"
    /\ showFilePreview = FALSE
    /\ currentPage = "welcome"

C5_Witness ==
  /\ ev = "logout" /\ currentPage = "welcome" /\ user = NoUser
  /\ histAdds > 0 /\ authTokenLS = "tok1"

\* C6 -- logout is idempotent: from any state, logout leaves the machine on
\* welcome without session cookies, a second logout changes nothing, and from
\* a state that is already logged out the first one changes nothing either.
C6_LogoutIdempotent ==
  LET once == handleLogout(AppState)
      twice == handleLogout(once)
  IN /\ once.currentPage = "welcome"
     /\ once.cookies["userToken"] = NoCookie /\ once.cookies["userData"] = NoCookie
     /\ twice = once
     /\ ev = "logout" => once = AppState

C6_Witness ==
  /\ ev = "logout" /\ user = NoUser /\ currentPage = "welcome"
  /\ getCookie(cookies, "userToken") = Null /\ getCookie(cookies, "userData") = Null
  /\ handleLogout(AppState) = AppState

\* C7 -- after logout no token of the session remains in any store: the
\* authToken of localStorage and the authToken cookie are absent too.
C7_LogoutClearsAuthToken ==
  ev = "logout" => authTokenLS = Null /\ ~cookies["authToken"].present

\* C8 -- in every reachable state a selected topic implies a selected subject,
\* and a file being viewed implies showFilePreview.
C8_NavigationInvariant ==
  /\ selectedTopic # Null => selectedSubject # Null
  /\ viewingFile # Null => showFilePreview

C8_Witness ==
  /\ selectedSubject # Null /\ selectedTopic # Null
  /\ viewingFile # Null /\ showFilePreview

\* C9 -- goBackToSubjects leaves selectedSubject, selectedTopic and viewingFile
\* unset and showFilePreview false; goBackToTopics leaves selectedTopic and
\* viewingFile unset and showFilePreview false and selectedSubject unchanged;
\* neither changes activeTab, user or currentPage.
C9_BackStep ==
  /\ ev' = "goBackToSubjects" =>
       /\ selectedSubject' = Null /\ selectedTopic' = Null
       /\ viewingFile' = Null /\ showFilePreview' = FALSE
       /\ activeTab' = activeTab /\ user' = user /\ currentPage' = currentPage
  /\ ev' = "goBackToTopics" =>
       /\ selectedTopic' = Null
       /\ viewingFile' = Null /\ showFilePreview' = FALSE
       /\ selectedSubject' = selectedSubject
       /\ activeTab' = activeTab /\ user' = user /\ currentPage' = currentPage

C9_BackIsHierarchicalCollapse == [][C9_BackStep]_vars

C9_Witness ==
  /\ ev = "goBackToTopics" /\ currentPage = "main"
  /\ selectedSubject # Null /\ selectedTopic = Null
  /\ viewingFile = Null /\ ~showFilePreview /\ histAdds > 0

\* C10 -- the history list never holds more than 50 entries, and after 51
\* adds of pairwise distinct (id,type) to an empty history it holds exactly 50.
C10_HistoryCap ==
  /\ Len(getHistory(storedHistory)) <= 50
  /\ (addsSinceEmpty = 51 /\ Cardinality(keysSinceEmpty) = 51) =>
       Len(getHistory(storedHistory)) = 50

C10_Witness ==
  /\ addsSinceEmpty = 51 /\ Cardinality(keysSinceEmpty) = 51
  /\ Len(getHistory(storedHistory)) = 50
  /\ ev = "addNew"

\* C11 -- adding an item whose (id,type) is in the history keeps the length and
\* adds exactly 1 to that entry's visitCount; the same new (id,type) added
\* twice to an empty history gives one entry with visitCount 2; every stored
\* entry has visitCount >= 1 and no two entries share their (id,type).
C11_Counts ==
  LET h == getHistory(storedHistory)
      keys == Cardinality(keysSinceEmpty)
  IN /\ \A i \in 1..Len(h) : h[i].visitCount >= 1
     /\ \A i, j \in 1..Len(h) : (h[i].id = h[j].id /\ h[i].type = h[j].type) => i = j
     /\ Len(h) = (IF keys < HistoryLimit THEN keys ELSE HistoryLimit)
     /\ (addsSinceEmpty = 2 /\ keys = 1) => (Len(h) = 1 /\ h[1].visitCount = 2)

C11_RepeatStep ==
  LET h == getHistory(storedHistory)
      h2 == getHistory(storedHistory')
  IN ev' = "addAgain" =>
       \E k \in 1..Len(h) :
         h2 = [h EXCEPT ![k] = [@ EXCEPT !.visitCount = @ + 1, !.lastVisited = clock']]

C11_RepeatVisitCounts == [](C11_Counts) /\ [][C11_RepeatStep]_vars

C11_Witness ==
  /\ ev = "addAgain" /\ addsSinceEmpty = 2 /\ Cardinality(keysSinceEmpty) = 1
  /\ getHistory(storedHistory)[1].visitCount = 2

\* C18 -- the history is ordered most-recent-first: an entry with a larger
\* lastVisited never comes after an entry with a smaller one.
C18_MostRecentFirst ==
  LET h == getHistory(storedHistory)
  IN \A i, j \in 1..Len(h) : i < j => h[i].lastVisited >= h[j].lastVisited

\* C19 -- the mock login answers success with userType user for (TZY, 123456),
\* success with userType guest for (tzy, 123456), and success:false with a
\* message and no data for every other pair of username and password.
C19_MockLoginTable ==
  apiCall.name = "mockLogin" =>
    IF apiCall.password = "123456" /\ apiCall.username \in {"TZY", "tzy"}
      THEN /\ apiResult.success /\ apiResult.hasData
           /\ apiResult.data.username = apiCall.username
           /\ apiResult.data.userType = (IF apiCall.username = "TZY" THEN "user" ELSE "guest")
      ELSE /\ ~apiResult.success /\ ~apiResult.hasData
           /\ apiResult.message # ""

C19_Witness ==
  /\ apiCall.name = "mockLogin" /\ apiCall.username = "TZY" /\ apiCall.password = "12345"
  /\ ~apiResult.success /\ clock > 1

\* C14 -- login, register, validateSession and logout never raise: whatever
\* the remote call does, each returns an envelope carrying success, and
\* success is false when the call failed.
C14_GatewayReturnsEnvelope ==
  apiCall.name \in {"login", "register", "validateSession", "logout"} =>
    /\ ~apiResult.isNull
    /\ apiCall.outcome # "ok" => ~apiResult.success

\* C15 -- after the gateway's logout returns, the authToken is absent from
\* localStorage and from the cookies, whatever the remote call did.
C15_LogoutClearsToken ==
  apiCall.name = "logout" => authTokenLS = Null /\ ~cookies["authToken"].present

C15_Witness ==
  /\ apiCall.name = "logout" /\ apiCall.outcome = "neterr"
  /\ apiCall.tokenBefore # Null
  /\ authTokenLS = Null /\ ~cookies["authToken"].present

\* C13 -- while the logged-in user is a guest, the active tab is search.
C13_GuestStaysOnSearch ==
  UserType(user) = "guest" => activeTab = "search"

\* C16 -- once a gateway call was answered 401 and the handler that made the
\* call has run to its end, no authToken, userToken or userData remains
\* stored while the redirect to /login is under way.
C16_Http401DropsSession ==
  navPending =>
    /\ authTokenLS = Null
    /\ \A n \in CookieNames : ~cookies[n].present

\* C12 -- a signup submitted with signupPassword different from
\* signupConfirmPassword does not call register, sets the mismatch message,
\* stays on signup, keeps the fields and leaves loading off.
C12_MismatchStep ==
  ev' \in {"signupMismatch", "signupSubmit"}
    /\ formData["signupPassword"] # formData["signupConfirmPassword"] =>
      /\ ev' = "signupMismatch"
      /\ ~registerCall' /\ staleRegister' = staleRegister
      /\ signupTimers' = signupTimers
      /\ cookies' = cookies /\ authTokenLS' = authTokenLS
      /\ message' = "mismatch"
      /\ currentPage = "signup" /\ currentPage' = "signup"
      /\ formData' = formData
      /\ ~loading'

C12_MismatchStaysLocal == [][C12_MismatchStep]_vars

C12_Witness ==
  /\ ev = "signupMismatch" /\ message = "mismatch" /\ currentPage = "signup"
  /\ formData["signupPassword"] = "p" /\ formData["signupConfirmPassword"] = "q"
  /\ ~registerCall /\ ~loading

\* C17 -- when register answers success to the mounted form, the signup fields
\* are cleared and the gateway's message shown in that same step, with the
\* page unchanged; the page becomes login by the timeout, which fires only
\* once the delay has passed and clears the message of the form that set it.
C17_SignupStep ==
  /\ ev' \in {"signupOk", "lateSignupOk"} =>
       /\ currentPage' = currentPage
       /\ signupTimers' = Append(signupTimers, [left |-> SignupDelay, live |-> ev' = "signupOk"])
  /\ ev' = "signupOk" =>
       /\ \A f \in SignupFields : formData'[f] = ""
       /\ \A f \in LoginFields : formData'[f] = formData[f]
       /\ message' = "registered"
       /\ ~loading'
  /\ ev' = "signupTimeout" =>
       /\ currentPage' = "login"
       /\ \E i \in 1..Len(signupTimers) :
            /\ signupTimers[i].left = 0
            /\ Len(signupTimers') = Len(signupTimers) - 1
            /\ signupTimers[i].live => message' = ""
  /\ (currentPage' = "login" /\ currentPage # "login") =>
       ev' \in {"signupTimeout", "showLogin"}

C17_SignupThenLogin == [][C17_SignupStep]_vars

C17_Witness ==
  /\ ev = "signupTimeout" /\ currentPage = "login" /\ message = ""
  /\ formData = EmptyForm /\ signupTimers = <<>> /\ user = NoUser

\* C20 -- after every toggleTheme the stored theme is the theme shown; once
\* the mount effect of a page load has run, the theme shown is the stored one,
\* or light when nothing is stored; toggling twice gives the theme back.
C20_ThemeRoundTrip ==
  /\ ev = "toggleTheme" => themeLS = theme
  /\ mounted => theme = (IF themeLS = Null THEN "light" ELSE themeLS)
  /\ newTheme(newTheme(theme)) = theme
  /\ bodyClass = bodyClassName(theme)

C20_Witness ==
  /\ ev = "mount" /\ themeLS = "dark" /\ theme = "dark" /\ bodyClass = "dark-theme"

\* C23 -- a repeat visit updates its entry in place: the list keeps its length
\* and the position of every entry, every other entry keeps all its fields,
\* and the entry visited keeps all but visitCount and lastVisited.
C23_InPlaceStep ==
  LET h == getHistory(storedHistory)
      h2 == getHistory(storedHistory')
  IN ev' = "addAgain" =>
       /\ Len(h2) = Len(h)
       /\ \A i \in 1..Len(h) :
            /\ h2[i].id = h[i].id /\ h2[i].type = h[i].type /\ h2[i].name = h[i].name
       /\ Cardinality({i \in 1..Len(h) : h2[i] # h[i]}) = 1
       /\ \A i \in 1..Len(h) :
            h2[i] # h[i] => (h2[i].visitCount # h[i].visitCount
                            /\ h2[i].lastVisited # h[i].lastVisited)

C23_RepeatVisitInPlace == [][C23_InPlaceStep]_vars

C23_Witness ==
  LET h == getHistory(storedHistory)
  IN /\ ev = "addAgain" /\ Len(h) >= 3
     /\ \E k \in 2..Len(h) : h[k].visitCount = 2 /\ h[k].lastVisited = clock

\* C24 -- entries leave the history only by clearHistory or at the tail: an
\* add of a new (id,type) to a list of 50 drops exactly the last entry and
\* keeps the other 49 in order behind the new one, whatever the last entry's
\* visitCount and lastVisited; any other add drops nothing.
C24_EvictionStep ==
  LET h == getHistory(storedHistory)
      h2 == getHistory(storedHistory')
      keys(l) == {<<l[i].id, l[i].type>> : i \in 1..Len(l)}
  IN /\ (ev' = "addNew" /\ Len(h) = HistoryLimit) =>
          /\ SubSeq(h2, 2, HistoryLimit) = SubSeq(h, 1, HistoryLimit - 1)
          /\ keys(h) \ keys(h2) = {<<h[HistoryLimit].id, h[HistoryLimit].type>>}
     /\ (ev' = "addNew" /\ Len(h) < HistoryLimit) => keys(h) \subseteq keys(h2)
     /\ ev' = "addAgain" => keys(h2) = keys(h)
     /\ ~(keys(h) \subseteq keys(h2)) => ev' \in {"addNew", "clearHistory"}

C24_OnlyTailIsEvicted == [][C24_EvictionStep]_vars

C24_Witness ==
  LET h == getHistory(storedHistory)
  IN /\ ev = "addNew" /\ Len(h) = HistoryLimit
     /\ <<paperItem(1).id, "file">> \in keysSinceEmpty
     /\ \A i \in 1..Len(h) : h[i].id # paperItem(1).id
     /\ addsSinceEmpty > Cardinality(keysSinceEmpty)
     /\ h[HistoryLimit].lastVisited < h[HistoryLimit - 1].lastVisited

\* C25 -- identity is the pair (id,type): from any history holding neither, a
\* file and a topic with the same id become two entries with visitCount 1,
\* and adding the file again raises the file's count alone.
C25_IdentityIsIdAndType ==
  LET fileItem == [type |-> "file", id |-> "9709", name |-> "9709"]
      topicItem == [type |-> "topic", id |-> "9709", name |-> "A Level Mathematics"]
      a == addToHistory(storedHistory, fileItem, clock + 1)
      b == addToHistory(a, topicItem, clock + 2)
      c == addToHistory(b, fileItem, clock + 3)
      h == getHistory(storedHistory)
  IN /\ (\A i \in 1..Len(h) : h[i].id # "9709") =>
          /\ Len(b.list) = (IF Len(h) + 2 < HistoryLimit THEN Len(h) + 2 ELSE HistoryLimit)
          /\ b.list[1].type = "topic" /\ b.list[1].visitCount = 1
          /\ b.list[2].type = "file" /\ b.list[2].visitCount = 1
          /\ c.list = [b.list EXCEPT ![2] = [@ EXCEPT !.visitCount = 2, !.lastVisited = clock + 3]]
     /\ \A i, j \in 1..Len(h) : (i # j /\ h[i].id = h[j].id) => h[i].type # h[j].type

C25_Witness ==
  LET h == getHistory(storedHistory)
  IN /\ Len(h) >= 2
     /\ h[1].id = "9709" /\ h[1].type = "topic" /\ h[1].visitCount = 1
     /\ h[2].id = "9709" /\ h[2].type = "file" /\ h[2].visitCount = 2
     /\ ev = "addAgain"

\* C26 -- after clearHistory the list read back is empty whatever it held, and
\* reading a history whose key was never written gives the empty list.
C26_ClearThenEmpty ==
  /\ getHistory(clearHistory(storedHistory)) = <<>>
  /\ ev = "clearHistory" => (~storedHistory.present /\ getHistory(storedHistory) = <<>>)
  /\ ~storedHistory.present => getHistory(storedHistory) = <<>>

C26_Witness ==
  /\ ev = "clearHistory" /\ clock >= HistoryLimit
  /\ ~storedHistory.present /\ getHistory(storedHistory) = <<>>

\* ------------------------------------------------------------ C21
\* C21: selecting a subject sets selectedSubject and clears selectedTopic,
\* viewingFile and showFilePreview; selecting a topic sets selectedTopic, clears
\* viewingFile and showFilePreview and leaves selectedSubject; neither changes
\* activeTab, user or currentPage.
C21_SelectStep ==
  /\ ev' = "subjectClick" =>
        /\ selectedSubject' \in SubjectKeys
        /\ selectedTopic' = Null /\ viewingFile' = Null /\ ~showFilePreview'
        /\ UNCHANGED << activeTab, user, currentPage >>
  /\ ev' = "topicClick" =>
        /\ selectedTopic' \in subjectsData[selectedSubject]
        /\ viewingFile' = Null /\ ~showFilePreview'
        /\ UNCHANGED << selectedSubject, activeTab, user, currentPage >>

C21_SelectionFrame == [][C21_SelectStep]_vars

\* a subject was selected after a file had been viewed: topic and file are clear
C21_Witness ==
  /\ ev = "subjectClick" /\ histAdds > 0
  /\ selectedSubject # Null /\ selectedTopic = Null /\ viewingFile = Null

\* ------------------------------------------------------------ C22
\* C22: opening a file sets viewingFile to the file and showFilePreview to true and
\* records exactly one history add of type file keyed by the file's title, leaving
\* selectedSubject and selectedTopic; closing the preview sets viewingFile to null
\* and showFilePreview to false and leaves the history and the selection.
C22_FileStep ==
  /\ ev' = "fileView" =>
        /\ \E i \in 1..MaxPaper : viewingFile' = FileTitle(selectedTopic, i)
        /\ showFilePreview'
        /\ histAdds' = histAdds + 1
        /\ storedHistory' =
             addToHistory(storedHistory,
                          [type |-> "file", id |-> viewingFile', name |-> viewingFile'],
                          clock')
        /\ browsingHistory' = getHistory(storedHistory')
        /\ UNCHANGED << selectedSubject, selectedTopic >>
  /\ ev' = "closeFilePreview" =>
        /\ viewingFile' = Null /\ ~showFilePreview'
        /\ UNCHANGED << storedHistory, browsingHistory, histAdds, selectedSubject,
                        selectedTopic >>

C22_OpenAndCloseFile == [][C22_FileStep]_vars

\* a file was opened and its preview closed: the entry is in the history still
C22_Witness ==
  /\ ev = "closeFilePreview" /\ viewingFile = Null /\ ~showFilePreview
  /\ selectedTopic # Null /\ histAdds = 1 /\ Len(getHistory(storedHistory)) = 1

\* ------------------------------------------------------------ C30
\* C30: a login call under way is not cancelled by navigation: when currentPage
\* changes (login to signup through the register link) before the call resolves,
\* a successful result still writes the cookies, sets the user and moves to main,
\* and a failed result still sets the message on whatever page is current.
C30_InFlightStep ==
  /\ ev' \in {"showLogin", "showSignUp", "showWelcome"} => UNCHANGED loginCall
  /\ (loginCall /\ currentPage # "login") =>
        /\ ev' = "loginOk" =>
              /\ user' \in UserData
              /\ cookies' = sessionCookies(loginStores(Stores, "ok", user').cookies, user')
              /\ currentPage' = "main"
        /\ ev' \in {"loginRejected", "loginError"} =>
              /\ message' \in {"server", "network"}
              /\ currentPage' = currentPage
              /\ ~loginCall'

C30_LoginSurvivesNavigation == [][C30_InFlightStep]_vars

\* the call was rejected after the register link had been followed: the sign-up
\* form shows the login's message
C30_Witness ==
  /\ ev = "loginRejected" /\ currentPage = "signup" /\ message = "server"
  /\ ~loginCall /\ ~loading

\* ------------------------------------------------------------ C29
\* C29: a successful registration creates no session: user stays as it was (unset,
\* when nobody was logged in), no userToken or userData cookie is written, the
\* page is left as it is by the answer and becomes login by the timeout; no step
\* of the sign-up moves to main.
C29_RegistrationStep ==
  /\ ev' \in {"signupOk", "lateSignupOk"} =>
        /\ user' = user
        /\ cookies'["userToken"] = cookies["userToken"]
        /\ cookies'["userData"] = cookies["userData"]
        /\ currentPage' = currentPage
  /\ ev' = "signupOk" => currentPage' # "main"
  /\ ev' = "signupTimeout" => user' = user /\ currentPage' = "login"
  /\ (currentPage' = "main" /\ currentPage # "main") =>
        ev' \notin {"signupOk", "lateSignupOk", "signupTimeout"}

C27_TimerStep ==
  /\ ev' = "fileView" => durationTimers' = 1
  /\ (showFilePreview /\ ~showFilePreview') =>
        /\ ev' \in {"closeFilePreview", "goBackToTopics", "goBackToSubjects",
                    "subjectClick", "topicClick", "logout", "reload", "redirect"}
        /\ durationTimers' = 0
        /\ currentDuration' = 0
  /\ ev' = "durationTick" => showFilePreview /\ fileStartTime # 0

C28_PersistedUsageStep ==
  (mounted /\ mounted') => dailyUsageLS' >= dailyUsageLS

C28_PersistedUsageNeverDecreases == [][C28_PersistedUsageStep]_vars

\* ------------------------------------------------------------ C31
\* C31: while a session is held on main (user set), currentPage stays main until
\* logout (or a new page load): neither a pending sign-up timer nor a late answer
\* of the startup validation moves a logged-in machine to login or welcome.
C31_SessionStep ==
  (currentPage = "main" /\ user # NoUser /\ currentPage' # "main") =>
    ev' \in {"logout", "reload", "redirect"}

C31_SessionStaysOnMain == [][C31_SessionStep]_vars

\* ------------------------------------------------------------ C32
\* C32: in every reachable state, currentPage = main implies that user is set.
C32_MainImpliesUser == currentPage = "main" => user # NoUser

\* the startup validation restored the session of the cookies
C32_Witness ==
  /\ ev = "resumed" /\ currentPage = "main"
  /\ user \in UserData /\ cookies["userData"].value = JSONstringify(user)

\* ------------------------------------------------------------ C33
\* C33: whenever user is set and the userData cookie is present, user is the user
\* serialized in that cookie, also when the startup validation and a login submit
\* overlap and resolve in either order.
C33_UserMatchesCookie ==
  (user # NoUser /\ cookies["userData"].present) =>
    cookies["userData"].value = JSONstringify(user)

\* ------------------------------------------------------------ C34
\* C34: in every reachable state a set viewingFile implies that selectedTopic and
\* selectedSubject are set: a file is open only beneath a selected topic of a
\* selected subject.
C34_FileBeneathTopic ==
  viewingFile # Null =>
    /\ selectedSubject \in SubjectKeys
    /\ selectedTopic \in subjectsData[selectedSubject]

\* a paper of the selected topic is open
C34_Witness ==
  /\ ev = "fileView" /\ viewingFile # Null /\ showFilePreview
  /\ selectedSubject # Null /\ selectedTopic # Null

\* ------------------------------------------------------------ C35
\* C35: the persisted daily usage of a day never exceeds the session time that
\* has passed that day: each minute is added once, not by the tick and again by
\* the flush of the cleanup that follows the tick. (Time passes only while the
\* page is mounted, so the session time of the day is dateNow.)
C35_UsageWithinElapsed == dailyUsageLS <= dateNow

\* ------------------------------------------------------------ C36
\* C36: the loading flag is true exactly while a login or register call is in
\* flight: every submit path resets it to false, and as submit is disabled while
\* it is true, at most one login or register call is in flight at any time.
C36_LoadingTracksCall ==
  LET inFlight == {c \in {"login", "register", "staleLogin", "staleRegister"} :
                     \/ c = "login" /\ loginCall
                     \/ c = "register" /\ registerCall
                     \/ c = "staleLogin" /\ staleLogin
                     \/ c = "staleRegister" /\ staleRegister}
  IN /\ loading <=> inFlight # {}
     /\ Cardinality(inFlight) <= 1

\* ------------------------------------------------------------ C37
\* C37: a subject selection that was confirmed, and so written to the
\* selectedSubjects key, is read back on a fresh load: after confirm and reload the
\* in-memory selectedSubjects is the persisted list.
C37_SelectionReadBack ==
  (ev = "mount" /\ selectedSubjectsLS.present) =>
    selectedSubjects = selectedSubjectsLS.value

\* ------------------------------------------------------------ C39
\* C39: after any sequence of toggleSubjectSelection calls selectedSubjects holds
\* at most 6 subjects with pairwise distinct ids; toggling a selected subject
\* removes it, toggling an unselected one adds it only when fewer than 6 are
\* selected, and otherwise the list is unchanged.
C39_ToggleStep ==
  ev' = "toggleSubject" =>
    LET before == {selectedSubjects[i] : i \in 1..Len(selectedSubjects)}
        after == {selectedSubjects'[i] : i \in 1..Len(selectedSubjects')}
    IN \/ \E x \in before : after = before \ {x}
       \/ /\ Cardinality(before) < 6
          /\ \E x \in availableSubjects \ before :
               selectedSubjects' = Append(selectedSubjects, x)
       \/ /\ Cardinality(before) = 6
          /\ selectedSubjects' = selectedSubjects

C39_AtMostSixDistinct ==
  /\ [](/\ Len(selectedSubjects) <= 6
        /\ \A i, j \in 1..Len(selectedSubjects) :
             selectedSubjects[i] = selectedSubjects[j] => i = j)
  /\ [][C39_ToggleStep]_vars

\* six subjects are selected, the last of them one that is not a default
C39_Witness ==
  /\ ev = "toggleSubject" /\ Len(selectedSubjects) = 6
  /\ selectedSubjects[6] > 3

\* ------------------------------------------------------------ C38
\* C38: logout leaves the persisted browsing history, theme, user profile and
\* daily usage unchanged: of the durable state it removes only the userToken and
\* userData cookies and the stored avatar.
C38_LogoutStep ==
  ev' = "logout" =>
    /\ UNCHANGED << storedHistory, themeLS, userProfileLS, dailyUsageLS,
                    selectedSubjectsLS, authTokenLS >>
    /\ cookies'["authToken"] = cookies["authToken"]
    /\ ~cookies'["userToken"].present /\ ~cookies'["userData"].present
    /\ avatarLS' = Null

C38_LogoutKeepsDurableState == [][C38_LogoutStep]_vars

\* a logout with history, theme, profile, subjects and usage stored
C38_Witness ==
  /\ ev = "logout" /\ avatarLS = Null
  /\ ~cookies["userToken"].present /\ ~cookies["userData"].present
  /\ cookies["authToken"].present
  /\ Len(getHistory(storedHistory)) = 1 /\ themeLS = "dark"
  /\ userProfileLS = "saved" /\ selectedSubjectsLS.present /\ dailyUsageLS > 0

====
